---- MODULE Spec2Model ----
(***************************************************************************)
(* GreenBits/app.py: the locality health report.                           *)
(*                                                                         *)
(*   compute_health_score               the pure scoring function          *)
(*   get_mock_localities_for_location   the nearest-record matcher         *)
(*   generate_mock_aqi_trend            the 7-day trend loop               *)
(*   api_report                         the POST /api/report handler       *)
(*                                                                         *)
(* Numbers.  Python floats are modelled by exact fixed-point integers.     *)
(* Inputs (pm2.5 in ug/m3, noise in dB, coordinates) are whole numbers.    *)
(* An unrounded impact is held in units of 1/Unit; a value returned by     *)
(* round(x, 2) is held in hundredths and one returned by round(x, 1) in    *)
(* tenths.  For whole-number inputs no rounded quantity lies on a tie, so  *)
(* the float result and the exact result round to the same decimal.        *)
(*                                                                         *)
(* Optional values.  JSON/Python values that may be None or ill-typed are  *)
(* records: Null, Num(v), Str.                                             *)
(***************************************************************************)
EXTENDS Integers, Sequences, FiniteSets, TLC

VARIABLES
    sc_in, sc_out,          \* compute_health_score: arguments, returned value
    mt_in, mt_out,          \* get_mock_localities_for_location: arguments, result
    pc,                     \* api_report: the handler's position
    reqs,                   \* requests received since the process started
    body,                   \* request.json of the request being handled
    frame,                  \* api_report's local variables
    trend,                  \* generate_mock_aqi_trend's loop: i, days, values
    resp,                   \* what the request ended with
    now,                    \* the UTC clock's calendar day (days since 2026-01-01)
    calls,                  \* outbound calls and dataset reads of this request
    loads                   \* dataset reads since the process started

scoreVars == <<sc_in, sc_out>>
matchVars == <<mt_in, mt_out>>
handlerVars == <<pc, reqs, body, frame, trend, resp, now, calls, loads>>
vars == <<sc_in, sc_out, mt_in, mt_out, pc, reqs, body, frame, trend, resp, now, calls, loads>>

----------------------------------------------------------------------------
(* Bounds of the model *)

MaxPm == 152            \* pm2.5 inputs range over -NegRange..MaxPm
MaxNoise == 102         \* noise inputs range over -NegRange..MaxNoise
MaxComplaints == 11     \* complaint counts range over -NegRange..MaxComplaints
NegRange == 1           \* how far below zero the numeric inputs reach
MaxCoord == 1           \* latitudes and longitudes range over 0..MaxCoord
MaxRecords == 3         \* entries of a locality mapping given to the matcher alone
MaxFileRecords == 2     \* entries of the locality dataset a request reads
MaxAddrLen == 2         \* characters of an address
MaxRequests == 2        \* requests the process receives
MaxTicks == 1           \* midnights the clock passes
StartDay == 58          \* the clock's day when the process starts (2026-02-28)

----------------------------------------------------------------------------
(* Values *)

Null == [t |-> "null"]
Num(v) == [t |-> "num", v |-> v]
Str == [t |-> "str"]

IsNum(x) == x.t = "num"

Min(a, b) == IF a < b THEN a ELSE b
Max(a, b) == IF a > b THEN a ELSE b

\* Denominator of the unrounded impacts: pm/150*60 = 6*pm/15,
\* (noise-40)/60*20 = 5*(noise-40)/15, complaints*2 = 30*complaints/15.
Unit == 3 * 5

\* Python round(): n/d to the nearest integer, ties to the even one (d > 0).
RoundDiv(n, d) ==
    LET q == n \div d
        r == n % d
    IN  IF 2 * r < d THEN q
        ELSE IF 2 * r > d THEN q + 1
        ELSE IF q % 2 = 0 THEN q ELSE q + 1

----------------------------------------------------------------------------
(* compute_health_score(aqi_pm25, noise_db, complaints_count)              *)
(* Arguments are Null | Num(v) | Str; a Str operand makes max()/min()/the  *)
(* arithmetic raise TypeError, as does a None complaints_count.            *)

DefaultPm25 == 35

\* line 95: min(max(aqi_pm25, 0) / 150.0 * 60.0, 60.0), in 1/Unit
aqi_impact_of(pm) == Min(Max(pm, 0) * 6, 60 * Unit)

\* mutant: the 40 dB floor of the noise window dropped
noise_impact_from_zero(noise) == Min(Max(noise, 0) * 5, 20 * Unit)

\* line 100: min(max(noise_db - 40.0, 0) / 60.0 * 20.0, 20.0), in 1/Unit
noise_impact_of(noise) == Min(Max(noise - 40, 0) * 5, 20 * Unit)

\* mutant: the cap of the complaints impact dropped
complaints_impact_uncapped(c) == c * 2 * Unit

\* line 103: min(complaints_count * 2.0, 20.0), in 1/Unit
complaints_impact_of(c) == Min(c * 2 * Unit, 20 * Unit)

\* lines 105-108: total impact, raw score and clamp, in 1/Unit
score_of(total_impact) ==
    LET raw_score == Max(0, 100 * Unit - total_impact)
    IN  Max(0, Min(100 * Unit, raw_score))

\* mutant: the guard of lines 91-92 dropped, so max(None, 0) raises TypeError
compute_health_score_unguarded(aqi_pm25, noise_db, complaints_count) ==
    IF ~IsNum(aqi_pm25) \/ noise_db.t = "str" \/ ~IsNum(complaints_count)
    THEN [raised |-> TRUE]
    ELSE
      LET aqi_impact == aqi_impact_of(aqi_pm25.v)
          noise_impact == IF noise_db = Null THEN 0 ELSE noise_impact_of(noise_db.v)
          complaints_impact == complaints_impact_of(complaints_count.v)
          score == score_of(aqi_impact + noise_impact + complaints_impact)
      IN  [raised |-> FALSE,
           score |-> RoundDiv(score * 10, Unit),
           aqi_impact |-> RoundDiv(aqi_impact * 100, Unit),
           noise_impact |-> RoundDiv(noise_impact * 100, Unit),
           complaints_impact |-> RoundDiv(complaints_impact * 100, Unit)]

compute_health_score(aqi_pm25, noise_db, complaints_count) ==
    IF aqi_pm25.t = "str" \/ noise_db.t = "str" \/ ~IsNum(complaints_count)
    THEN [raised |-> TRUE]
    ELSE
      LET pm == IF aqi_pm25 = Null THEN DefaultPm25 ELSE aqi_pm25.v
          aqi_impact == aqi_impact_of(pm)
          noise_impact == IF noise_db = Null THEN 0 ELSE noise_impact_of(noise_db.v)
          complaints_impact == complaints_impact_of(complaints_count.v)
          total_impact == aqi_impact + noise_impact + complaints_impact
          score == score_of(total_impact)
      IN  [raised |-> FALSE,
           score |-> RoundDiv(score * 10, Unit),                       \* tenths
           aqi_impact |-> RoundDiv(aqi_impact * 100, Unit),            \* hundredths
           noise_impact |-> RoundDiv(noise_impact * 100, Unit),
           complaints_impact |-> RoundDiv(complaints_impact * 100, Unit)]

----------------------------------------------------------------------------
(* The scoring function applied to every input of the bounded ranges *)

PmInputs == {Null} \cup {Num(v) : v \in (0 - NegRange)..MaxPm}
NoiseInputs == {Null} \cup {Num(v) : v \in (0 - NegRange)..MaxNoise}
ComplaintInputs == {Num(v) : v \in (0 - NegRange)..MaxComplaints}

NotCalled == [called |-> FALSE]

ScoreIdle == sc_in = [pm |-> Null, noise |-> Null, complaints |-> Num(0)] /\ sc_out = NotCalled
MatchIdle == mt_in = [lat |-> 0, lon |-> 0, lookup |-> <<>>] /\ mt_out = NotCalled

\* api_report before any request: nothing is loaded when the module is imported
Unbound == [t |-> "unbound"]
NoResp == [t |-> "none"]
NoFrame ==
    [address |-> Unbound, geocode |-> Unbound, fetched |-> Unbound, aqi |-> Unbound,
     mock |-> Unbound, local |-> Unbound, pm25 |-> Unbound, noise_db |-> Unbound,
     complaints |-> Unbound, score |-> Unbound]
NoTrend == [i |-> 6, days |-> <<>>, values |-> <<>>, returned_on |-> Unbound]
NoCalls == [geocode |-> 0, fetch_aqi |-> 0, load |-> 0, match |-> 0, score |-> 0]

HandlerIdle ==
    /\ pc = "idle"
    /\ reqs = 0
    /\ body = Unbound
    /\ frame = NoFrame
    /\ trend = NoTrend
    /\ resp = NoResp
    /\ now = StartDay
    /\ calls = NoCalls
    /\ loads = 0

ScoreInit ==
    /\ sc_in \in [pm : PmInputs, noise : NoiseInputs, complaints : ComplaintInputs]
    /\ sc_out = NotCalled
    /\ MatchIdle
    /\ HandlerIdle

CallScore ==
    /\ sc_out = NotCalled
    /\ sc_out' = [called |-> TRUE,
                  ret |-> compute_health_score(sc_in.pm, sc_in.noise, sc_in.complaints)]
    /\ UNCHANGED <<sc_in, matchVars, handlerVars>>

ScoreNext == CallScore

SpecScore == ScoreInit /\ [][ScoreNext]_vars

----------------------------------------------------------------------------
(* get_mock_localities_for_location(lat, lon, lookup)                      *)
(* A mapping (a dict loaded from JSON: its keys are strings, distinct) is  *)
(* the sequence of its entries [key, value] in iteration order.  A value   *)
(* is [sample_latlon, noise_db, complaints, pincode]; sample_latlon is     *)
(* <<>> when the entry has none (None and [] are both falsy at line 69).   *)

NoneKey == "<None>"     \* Python's None as the value of best_key
Inf == 0 - 1            \* float("inf") as the value of best_dist

\* line 71: d < best_dist
Less(d, best_dist) == best_dist = Inf \/ d < best_dist

\* line 70
SqDist(lat, lon, sample) ==
    (lat - sample[1]) * (lat - sample[1]) + (lon - sample[2]) * (lon - sample[2])

\* lines 64-73: best_key and best_dist after the first n entries
RECURSIVE best_after(_, _, _, _)
best_after(lat, lon, lookup, n) ==
    IF n = 0 THEN [best_key |-> NoneKey, best_dist |-> Inf]
    ELSE LET prev == best_after(lat, lon, lookup, n - 1)
             sample == lookup[n].value.sample_latlon
         IN  IF sample # <<>>
             THEN LET d == SqDist(lat, lon, sample)
                  IN  IF Less(d, prev.best_dist)
                      THEN [best_key |-> lookup[n].key, best_dist |-> d]
                      ELSE prev
             ELSE prev

\* line 75: "if best_key:" is the truth value of the key, and "" is falsy
Truthy(key) == key # NoneKey /\ key # ""

\* lookup[key]
Item(lookup, key) ==
    LET i == CHOOSE j \in 1..Len(lookup) : lookup[j].key = key
    IN  lookup[i]

\* lines 75-79; next(iter(lookup)) raises StopIteration on an empty mapping.
\* The entry's key is kept beside the returned value to tell entries apart.
get_mock_localities_for_location(lat, lon, lookup) ==
    LET best_key == best_after(lat, lon, lookup, Len(lookup)).best_key
    IN  IF Truthy(best_key)
        THEN [raised |-> FALSE, key |-> best_key, value |-> Item(lookup, best_key).value]
        ELSE IF lookup = <<>>
             THEN [raised |-> TRUE]
             ELSE [raised |-> FALSE, key |-> lookup[1].key, value |-> lookup[1].value]

----------------------------------------------------------------------------
(* The matcher applied to every mapping of the bounded shapes *)

Keys == {"", "a", "b"}
Coords == (0..MaxCoord) \X (0..MaxCoord)
Samples == {<<>>} \cup {<<c[1], c[2]>> : c \in Coords}

DistinctKeys(lookup) ==
    \A i, j \in 1..Len(lookup) : lookup[i].key = lookup[j].key => i = j

\* every mapping of at most maxlen entries with the given keys and values
Lookups(keys, values, maxlen) ==
    {lookup \in UNION {[1..n -> [key : keys, value : values]] : n \in 0..maxlen} :
        DistinctKeys(lookup)}

BareValues ==
    [sample_latlon : Samples, noise_db : {Null}, complaints : {Null}, pincode : {Null}]

MatchInit ==
    /\ mt_in \in [lat : 0..MaxCoord, lon : 0..MaxCoord,
                  lookup : Lookups(Keys, BareValues, MaxRecords)]
    /\ mt_out = NotCalled
    /\ ScoreIdle
    /\ HandlerIdle

CallMatch ==
    /\ mt_out = NotCalled
    /\ mt_out' = [called |-> TRUE,
                  ret |-> get_mock_localities_for_location(mt_in.lat, mt_in.lon, mt_in.lookup)]
    /\ UNCHANGED <<mt_in, scoreVars, handlerVars>>

MatchNext == CallMatch

SpecMatch == MatchInit /\ [][MatchNext]_vars

----------------------------------------------------------------------------
(* Calendar: datetime arithmetic and strftime("%Y-%m-%d").                 *)
(* A day is its number of days since 2026-01-01; a formatted date is the   *)
(* triple <<year, month, day>> the ISO string spells.                      *)

Leap(y) == (y % 4 = 0 /\ y % 100 # 0) \/ y % 400 = 0

DaysIn(y, m) ==
    IF m = 2 THEN (IF Leap(y) THEN 29 ELSE 28)
    ELSE IF m \in {4, 6, 9, 11} THEN 30 ELSE 31

\* the date d0 days after the first of month m of year y (d0 >= 0)
RECURSIVE month_day(_, _, _)
month_day(y, m, d0) ==
    IF d0 < DaysIn(y, m) THEN <<y, m, d0 + 1>>
    ELSE IF m = 12 THEN month_day(y + 1, 1, d0 - DaysIn(y, m))
    ELSE month_day(y, m + 1, d0 - DaysIn(y, m))

\* line 122: (datetime - timedelta(days=i)).strftime("%Y-%m-%d")
strftime(day) == month_day(2026, 1, day)

----------------------------------------------------------------------------
(* generate_mock_aqi_trend(pm25): one loop iteration *)

\* math.sin(i) * 5.0 for i = 0..6, in thousandths
Sin5(i) == IF i = 0 THEN 0 ELSE <<4207, 4546, 706, 0 - 3784, 0 - 4795, 0 - 1397>>[i]

\* line 118: base = pm25 if pm25 is not None else 40.0
trend_base(pm25) == IF pm25 = Null THEN 40 ELSE pm25.v

\* lines 124-125, the value in tenths
trend_value(base, i) ==
    LET v == Max(5000, base * 1000 + Sin5(i) + (i - 3) * 1500)
    IN  RoundDiv(v + ((i % 3) - 1) * 1000, 100)

\* line 122: the date of iteration i, read from the clock in that iteration
trend_date(clock, i) == strftime(clock - i)

----------------------------------------------------------------------------
(* The collaborators' replies and what the utilities make of them *)

Absent == [t |-> "absent"]
Text(s) == [t |-> "text", s |-> s]

Raise(exc) == [t |-> "raise", exc |-> exc]
Return(v) == [t |-> "return", v |-> v]
None == [t |-> "None"]

\* the coordinates the geocoder answers with: the corners of the grid
GeoCoords == {0, MaxCoord} \X {0, MaxCoord}

\* Geocoder replies: a transport or protocol failure, or a JSON array of matches
GeocoderReplies ==
    {[t |-> "failure", exc |-> e] : e \in {"HTTPError", "JSONDecodeError"}}
    \cup {[t |-> "results", results |-> <<>>]}
    \cup {[t |-> "results", results |-> <<[lat |-> Num(c[1]), lon |-> Num(c[2]), display_name |-> "d"]>>] :
             c \in GeoCoords}
    \cup {[t |-> "results", results |-> <<[lat |-> Absent, lon |-> Num(0), display_name |-> "d"]>>]}

\* lines 18-27
geocode_address(reply) ==
    IF reply.t = "failure" THEN Raise(reply.exc)                \* lines 22-24
    ELSE IF reply.results = <<>> THEN Return(None)              \* lines 25-26
    ELSE LET first == reply.results[1]
         IN  IF first.lat = Absent THEN Raise("KeyError")      \* results[0]["lat"]
             ELSE Return([lat |-> first.lat.v, lon |-> first.lon.v,
                          display |-> first.display_name])

\* Air-quality replies: a failure (network, non-2xx such as a rejected
\* credential, a body that is no JSON), or JSON data with a list of readings
Pm25Values == {Absent, Num(75), Str}

AqiReplies ==
    {[t |-> "failure", exc |-> e] : e \in {"HTTPError", "JSONDecodeError"}}
    \cup {[t |-> "data", list |-> <<>>]}
    \cup {[t |-> "data", list |-> <<[aqi |-> Num(2), pm2_5 |-> p]>>] : p \in Pm25Values}

\* dict.get(key): None when the key is absent
Get(v) == IF v = Absent THEN Null ELSE v

\* lines 30-47
fetch_aqi(reply) ==
    IF reply.t = "failure" THEN Raise(reply.exc)                \* lines 37-39
    ELSE IF reply.list = <<>> THEN Return(None)                 \* lines 40, 47
    ELSE LET item == reply.list[1]
         IN  Return([aqi_index |-> item.aqi,
                     components |-> [pm2_5 |-> item.pm2_5],
                     pm2_5 |-> Get(item.pm2_5)])

\* mutant: the try/except around fetch_aqi dropped
try_fetch_aqi_propagating(r) == r

\* lines 151-155: any exception of fetch_aqi is swallowed, aqi = None
try_fetch_aqi(r) == IF r.t = "raise" THEN Return(None) ELSE r

\* The dataset resource when it is read: unreadable (no file, no JSON), or a mapping
FileValue(sample, noise_db, complaints) ==
    [sample_latlon |-> sample, noise_db |-> noise_db, complaints |-> complaints,
     pincode |-> Null]

FileValues ==
    {FileValue(<<>>, Null, Absent),
     FileValue(<<0, 0>>, Num(70), Num(2)),
     FileValue(<<MaxCoord, MaxCoord>>, Null, Absent),
     FileValue(<<MaxCoord, MaxCoord>>, Num(70), Num(2))}

Resources ==
    {[t |-> "unreadable"]}
    \cup {[t |-> "json", lookup |-> k] : k \in Lookups({"", "a"}, FileValues, MaxFileRecords)}

\* lines 50-52
load_mock_local_data(resource) ==
    IF resource.t = "unreadable" THEN Raise("OSError") ELSE Return(resource.lookup)

----------------------------------------------------------------------------
(* api_report *)

Chars == {" ", "x"}
Addresses == UNION {[1..n -> Chars] : n \in 0..MaxAddrLen}

\* str.strip()
RECURSIVE LStrip(_)
LStrip(s) == IF s # <<>> /\ Head(s) = " " THEN LStrip(Tail(s)) ELSE s
RECURSIVE RStrip(_)
RStrip(s) == IF s # <<>> /\ s[Len(s)] = " " THEN RStrip(SubSeq(s, 1, Len(s) - 1)) ELSE s
\* mutant: the address taken as sent
Strip_missing(s) == s

Strip(s) == RStrip(LStrip(s))

\* request.json: null (or another falsy value), a non-empty array, or an
\* object whose "address" is absent, null, a number or a string
Bodies ==
    {[t |-> "null"], [t |-> "array"]}
    \cup {[t |-> "object", address |-> a] :
             a \in {Absent, Null, Num(0)} \cup {Text(s) : s \in Addresses}}

JsonError(status, error) == [t |-> "json", status |-> status, error |-> error]
\* line 142
AddressRequired == JsonError(400, "address required")
\* line 147
CouldNotGeocode == JsonError(400, "could not geocode address")
\* mutant: every failure reported as a bad request
ServerError_as_400(exc) == JsonError(400, exc)

\* lines 190-191: str(exc) is the error
ServerError(exc) == JsonError(500, exc)
\* an exception raised outside the try block leaves api_report
Escaped(exc) == [t |-> "escaped", exc |-> exc]

\* line 139-140: data = request.json or {}; data.get("address", "").strip()
address_of(b) ==
    IF b.t = "array" THEN Raise("AttributeError")               \* list has no get
    ELSE IF b.t = "null" \/ b.address = Absent THEN Return(Strip(<<>>))
    ELSE IF b.address.t = "text" THEN Return(Strip(b.address.s))
    ELSE Raise("AttributeError")                                \* None / int has no strip

\* lines 166-170.  The dict fetch_aqi returns always holds the key "pm2_5",
\* so the elif branch is never taken.
pm25_of(aqi) == IF aqi # None THEN aqi.pm2_5 ELSE Null

\* mutant: the trend's 40.0 default applied before scoring too
score_input_defaulted(pm25) == IF pm25 # Null THEN pm25 ELSE Num(40)

\* line 172: the pm25 handed to compute_health_score
score_input(pm25) == pm25

\* line 174: the pm25 handed to generate_mock_aqi_trend
trend_input(pm25) == IF pm25 # Null THEN pm25 ELSE Num(40)

\* line 162: local.get("complaints", 0)
complaints_of(value) == IF value.complaints = Absent THEN Num(0) ELSE value.complaints

Finish(r) ==
    /\ pc' = "done"
    /\ resp' = r

\* a request arrives
Receive ==
    /\ pc \in {"idle", "done"}
    /\ reqs < MaxRequests
    /\ \E b \in Bodies : body' = b
    /\ reqs' = reqs + 1
    /\ pc' = "validate"
    /\ frame' = NoFrame
    /\ trend' = NoTrend
    /\ resp' = NoResp
    /\ calls' = NoCalls
    /\ UNCHANGED <<now, loads>>

\* lines 139-142
Validate ==
    /\ pc = "validate"
    /\ LET a == address_of(body)
       IN  IF a.t = "raise" THEN Finish(Escaped(a.exc)) /\ UNCHANGED frame
           ELSE /\ frame' = [frame EXCEPT !.address = a.v]
                /\ IF a.v = <<>> THEN Finish(AddressRequired)
                   ELSE pc' = "geocode" /\ UNCHANGED resp
    /\ UNCHANGED <<reqs, body, trend, now, calls, loads>>

\* lines 145-148
Geocode ==
    /\ pc = "geocode"
    /\ \E reply \in GeocoderReplies :
         LET g == geocode_address(reply)
         IN  /\ frame' = [frame EXCEPT !.geocode = g]
             /\ IF g.t = "raise" THEN Finish(ServerError(g.exc))
                ELSE IF g.v = None THEN Finish(CouldNotGeocode)
                ELSE pc' = "fetch_aqi" /\ UNCHANGED resp
    /\ calls' = [calls EXCEPT !.geocode = @ + 1]
    /\ UNCHANGED <<reqs, body, trend, now, loads>>

\* lines 150-155
FetchAqi ==
    /\ pc = "fetch_aqi"
    /\ \E reply \in AqiReplies :
         LET r == fetch_aqi(reply)
             a == try_fetch_aqi(r)
         IN  IF a.t = "raise"
             THEN /\ frame' = [frame EXCEPT !.fetched = r.t]
                  /\ Finish(ServerError(a.exc))
             ELSE /\ frame' = [frame EXCEPT !.fetched = r.t, !.aqi = a.v]
                  /\ pc' = "load" /\ UNCHANGED resp
    /\ calls' = [calls EXCEPT !.fetch_aqi = @ + 1]
    /\ UNCHANGED <<reqs, body, trend, now, loads>>

\* line 157
LoadMock ==
    /\ pc = "load"
    /\ \E resource \in Resources :
         LET m == load_mock_local_data(resource)
         IN  /\ frame' = [frame EXCEPT !.mock = m]
             /\ IF m.t = "raise" THEN Finish(ServerError(m.exc))
                ELSE pc' = "compute" /\ UNCHANGED resp
    /\ calls' = [calls EXCEPT !.load = @ + 1]
    /\ loads' = loads + 1
    /\ UNCHANGED <<reqs, body, trend, now>>

\* lines 158-172
Compute ==
    /\ pc = "compute"
    /\ LET g == frame.geocode.v
           local == get_mock_localities_for_location(g.lat, g.lon, frame.mock.v)
       IN  IF local.raised
           THEN /\ frame' = [frame EXCEPT !.local = Raise("StopIteration")]
                /\ Finish(ServerError("StopIteration"))
                /\ calls' = [calls EXCEPT !.match = @ + 1]
           ELSE LET noise_db == local.value.noise_db
                    complaints == complaints_of(local.value)
                    pm25 == pm25_of(frame.aqi)
                    score == compute_health_score(score_input(pm25), noise_db, complaints)
                IN  /\ frame' = [frame EXCEPT !.local = Return(local), !.pm25 = pm25,
                                              !.noise_db = noise_db,
                                              !.complaints = complaints, !.score = score]
                    /\ calls' = [calls EXCEPT !.match = @ + 1, !.score = @ + 1]
                    /\ IF score.raised THEN Finish(ServerError("TypeError"))
                       ELSE pc' = "trend" /\ UNCHANGED resp
    /\ UNCHANGED <<reqs, body, trend, now, loads>>

\* lines 121-127: one iteration of the loop of generate_mock_aqi_trend, called
\* at line 174; after the iteration for i = 0 the function returns (line 128)
TrendStep ==
    /\ pc = "trend"
    /\ LET base == trend_base(trend_input(frame.pm25))
           i == trend.i
       IN  trend' = [i |-> IF i = 0 THEN 0 ELSE i - 1,
                     days |-> Append(trend.days, trend_date(now, i)),
                     values |-> Append(trend.values, trend_value(base, i)),
                     returned_on |-> IF i = 0 THEN Return(now) ELSE Unbound]
    /\ pc' = IF trend.i = 0 THEN "respond" ELSE "trend"
    /\ UNCHANGED <<reqs, body, frame, resp, now, calls, loads>>

\* lines 176-189
Respond ==
    /\ pc = "respond"
    /\ Finish([t |-> "json", status |-> 200,
               address |-> frame.geocode.v.display,
               lat |-> frame.geocode.v.lat,
               lon |-> frame.geocode.v.lon,
               pincode |-> frame.local.v.value.pincode,
               aqi |-> frame.aqi,
               pm25 |-> frame.pm25,
               noise_db |-> frame.noise_db,
               complaints |-> frame.complaints,
               score |-> frame.score.score,
               breakdown |-> [aqi_impact |-> frame.score.aqi_impact,
                              noise_impact |-> frame.score.noise_impact,
                              complaints_impact |-> frame.score.complaints_impact],
               trend |-> [dates |-> trend.days, pm25 |-> trend.values]])
    /\ UNCHANGED <<reqs, body, frame, trend, now, calls, loads>>

\* the UTC clock passes midnight
Tick ==
    /\ now < StartDay + MaxTicks
    /\ now' = now + 1
    /\ UNCHANGED <<pc, reqs, body, frame, trend, resp, calls, loads>>

Init ==
    /\ HandlerIdle
    /\ ScoreIdle
    /\ MatchIdle

Next ==
    \/ (Receive /\ UNCHANGED <<scoreVars, matchVars>>)
    \/ (Validate /\ UNCHANGED <<scoreVars, matchVars>>)
    \/ (Geocode /\ UNCHANGED <<scoreVars, matchVars>>)
    \/ (FetchAqi /\ UNCHANGED <<scoreVars, matchVars>>)
    \/ (LoadMock /\ UNCHANGED <<scoreVars, matchVars>>)
    \/ (Compute /\ UNCHANGED <<scoreVars, matchVars>>)
    \/ (TrendStep /\ UNCHANGED <<scoreVars, matchVars>>)
    \/ (Respond /\ UNCHANGED <<scoreVars, matchVars>>)
    \/ (Tick /\ UNCHANGED <<scoreVars, matchVars>>)

Spec == Init /\ [][Next]_vars

----------------------------------------------------------------------------
(* Claims about compute_health_score (SpecScore) *)

InRange(x, lo, hi) == lo <= x /\ x <= hi

\* the inputs claim C1 speaks of: pm25 >= 0 or absent, noise >= 0 or absent,
\* complaints >= 0
C1_Pre ==
    /\ sc_in.pm = Null \/ sc_in.pm.v >= 0
    /\ sc_in.noise = Null \/ sc_in.noise.v >= 0
    /\ sc_in.complaints.v >= 0

\* C1: for pm25 >= 0 or absent, noise >= 0 or absent and complaints >= 0 the
\* call returns a score in [0,100], an aqi_impact in [0,60], a noise_impact in
\* [0,20] and a complaints_impact in [0,20].
C1_ScoreAndImpactsInRange ==
    (sc_out.called /\ C1_Pre) =>
        /\ ~sc_out.ret.raised
        /\ InRange(sc_out.ret.score, 0, 100 * 10)
        /\ InRange(sc_out.ret.aqi_impact, 0, 60 * 100)
        /\ InRange(sc_out.ret.noise_impact, 0, 20 * 100)
        /\ InRange(sc_out.ret.complaints_impact, 0, 20 * 100)

\* every clamp is active: pm25 above 150, noise above 100, more than 10 complaints
C1_Witness ==
    /\ sc_out.called
    /\ sc_in.pm # Null /\ sc_in.pm.v > 150
    /\ sc_in.noise # Null /\ sc_in.noise.v > 100
    /\ sc_in.complaints.v > 10
    /\ sc_out.ret.score = 0

\* The reference formula of the specification (section 4.4), evaluated in
\* thousandths: each impact clamp(x, 0, hi), the score clamp(100 - sum, 0, 100),
\* the score returned to 1 decimal place and the impacts to 2.
Clamp(x, lo, hi) == IF x < lo THEN lo ELSE IF x > hi THEN hi ELSE x

RefScore(in) ==
    LET pm == IF in.pm = Null THEN 35 ELSE in.pm.v
        aqi == Clamp((Max(pm, 0) * 60 * 1000) \div 150, 0, 60 * 1000)
        noise == IF in.noise = Null THEN 0
                 ELSE Clamp(RoundDiv(Max(in.noise.v - 40, 0) * 20 * 100000, 60),
                            0, 20 * 100000)
        complaints == Clamp(in.complaints.v * 2 * 1000, 0, 20 * 1000)
        score == Clamp(100 * 100000 - (aqi * 100 + noise + complaints * 100),
                       0, 100 * 100000)
    IN  [raised |-> FALSE,
         score |-> RoundDiv(score, 10000),
         aqi_impact |-> RoundDiv(aqi, 10),
         noise_impact |-> RoundDiv(noise, 1000),
         complaints_impact |-> RoundDiv(complaints, 10)]

Returned(score, aqi, noise, complaints) ==
    [raised |-> FALSE, score |-> score, aqi_impact |-> aqi,
     noise_impact |-> noise, complaints_impact |-> complaints]

ScoreArgs(pm, noise, complaints) == [pm |-> pm, noise |-> noise, complaints |-> complaints]

\* C7: on the documented ranges (complaints >= 0) the call returns the
\* reference formula's values; (None, None, 0) gives 14/0/0 and score 86,
\* (150, 100, 10) gives 60/20/20 and score 0, (75, 70, 2) gives 30/10/4 and 56.
C7_ScoreEqualsReference ==
    (sc_out.called /\ sc_in.complaints.v >= 0) =>
        /\ sc_out.ret = RefScore(sc_in)
        /\ sc_in = ScoreArgs(Null, Null, Num(0))
              => sc_out.ret = Returned(860, 1400, 0, 0)
        /\ sc_in = ScoreArgs(Num(150), Num(100), Num(10))
              => sc_out.ret = Returned(0, 6000, 2000, 2000)
        /\ sc_in = ScoreArgs(Num(75), Num(70), Num(2))
              => sc_out.ret = Returned(560, 3000, 1000, 400)

C7_Witness ==
    /\ sc_out.called
    /\ sc_in = ScoreArgs(Num(75), Num(70), Num(2))
    /\ sc_out.ret.score = 560

----------------------------------------------------------------------------
(* Claims about get_mock_localities_for_location (SpecMatch) *)

HasSample(lookup, i) == lookup[i].value.sample_latlon # <<>>

\* the entry the specification names: of minimum squared distance, the first
\* in iteration order among equal minima, or the first entry when none has a
\* sample coordinate
NearestIndex(lat, lon, lookup) ==
    LET with == {i \in 1..Len(lookup) : HasSample(lookup, i)}
        dist(i) == SqDist(lat, lon, lookup[i].value.sample_latlon)
    IN  IF with = {} THEN 1
        ELSE CHOOSE i \in with :
                \A j \in with : dist(i) < dist(j) \/ (dist(i) = dist(j) /\ i <= j)

\* C5: for every query and every non-empty mapping (any keys, any order) the
\* matcher returns the entry of minimum squared distance, the first among equal
\* minima, or the first entry when no entry has a sample coordinate.
C5_MatcherReturnsNearest ==
    (mt_out.called /\ mt_in.lookup # <<>>) =>
        /\ ~mt_out.ret.raised
        /\ mt_out.ret.key = mt_in.lookup[NearestIndex(mt_in.lat, mt_in.lon, mt_in.lookup)].key

----------------------------------------------------------------------------
(* Claims about api_report (Spec) *)

GeoRaised == frame.geocode # Unbound /\ frame.geocode.t = "raise"
\* a transport or protocol failure: network error, non-2xx status, malformed body
GeoTransportFailure == GeoRaised /\ frame.geocode.exc \in {"HTTPError", "JSONDecodeError"}
GeoNone == frame.geocode = Return(None)
GeoMatched == frame.geocode # Unbound /\ frame.geocode.t = "return" /\ frame.geocode.v # None

NothingAfterGeocode ==
    calls.fetch_aqi = 0 /\ calls.load = 0 /\ calls.match = 0 /\ calls.score = 0

\* C2 as stated: zero matches and a transport/protocol failure of the geocoder
\* both end the request with 400 "could not geocode address", and neither is
\* followed by a pollution fetch, a record match or scoring.
C2_BothGeocodeFailuresAre400 ==
    (pc = "done" /\ (GeoNone \/ GeoTransportFailure)) =>
        resp = CouldNotGeocode /\ NothingAfterGeocode

\* C2 amended: zero matches end the request with 400 "could not geocode
\* address", a transport/protocol failure ends it with 500 carrying the
\* failure's message; in both cases no pollution fetch, dataset read, record
\* match or scoring is performed.
C2_GeocodeFailuresEndRequest ==
    /\ (pc = "done" /\ GeoNone) => resp = CouldNotGeocode
    /\ (pc = "done" /\ GeoTransportFailure) => resp = JsonError(500, frame.geocode.exc)
    /\ (GeoNone \/ GeoTransportFailure) => pc = "done" /\ NothingAfterGeocode

C2_Witness ==
    /\ pc = "done"
    /\ GeoTransportFailure
    /\ frame.geocode.exc = "HTTPError"
    /\ resp.status = 500

Matched == frame.local # Unbound /\ frame.local.t = "return"

Blank(b) ==
    \/ b.t = "null"
    \/ /\ b.t = "object"
       /\ \/ b.address = Absent
          \/ /\ b.address.t = "text"
             /\ \A k \in 1..Len(b.address.s) : b.address.s[k] = " "

\* C4: a request whose address is missing, empty or whitespace-only ends with
\* 400 "address required", and on that path no geocoder call, no air-quality
\* call and no dataset read is made.
C4_BlankAddressRejected ==
    (body # Unbound /\ Blank(body)) =>
        /\ pc \in {"validate", "done"}
        /\ pc = "done" => resp = AddressRequired
        /\ calls = NoCalls

C4_Witness ==
    /\ pc = "done"
    /\ body = [t |-> "object", address |-> Text(<<" ", " ">>)]
    /\ resp = AddressRequired
    /\ calls = NoCalls

\* the day after a formatted date
NextDay(date) ==
    IF date[3] < DaysIn(date[1], date[2]) THEN <<date[1], date[2], date[3] + 1>>
    ELSE IF date[2] < 12 THEN <<date[1], date[2] + 1, 1>>
    ELSE <<date[1] + 1, 1, 1>>

\* C6: every call of generate_mock_aqi_trend, however the clock advances while
\* it runs, returns 7 dates and 7 values, each date one calendar day after the
\* one before it, the last one today (the day the call returns).
C6_TrendDatesConsecutive ==
    trend.returned_on # Unbound =>
        /\ Len(trend.days) = 7
        /\ Len(trend.values) = 7
        /\ \A k \in 1..6 : trend.days[k + 1] = NextDay(trend.days[k])
        /\ trend.days[7] = strftime(trend.returned_on.v)

\* C8: whatever the body and the collaborators' outcomes, api_report ends with
\* one of its own responses (400 for a missing or unresolvable address, 500
\* with the failure's message, 200 with the report); no exception escapes it.
C8_HandlerAlwaysResponds ==
    pc = "done" =>
        /\ resp.t = "json"
        /\ resp.status \in {200, 400, 500}
        /\ resp.status = 400 => resp \in {AddressRequired, CouldNotGeocode}

DatasetUsable ==
    frame.mock # Unbound /\ frame.mock.t = "return" /\ frame.mock.v # <<>>

Pm25Usable == frame.aqi # Unbound /\ (frame.aqi = None \/ frame.aqi.pm2_5 # Str)

C10_LoadsFollowGeocoding ==
    /\ reqs = 0 => loads = 0
    /\ loads <= reqs
    /\ calls.load <= 1
    /\ (pc = "done" /\ GeoMatched) => calls.load = 1
    /\ (pc = "done" /\ ~GeoMatched) => calls.load = 0
    /\ (pc = "done" /\ frame.mock = Return(<<>>)) =>
           (calls.match = 1 /\ resp = JsonError(500, "StopIteration"))

====
